---- MODULE Spec2Model ----
(***************************************************************************)
(* A model of the eBird checker backend (src/app.py): the observation      *)
(* proxy (five handlers that validate a query, attach the server's         *)
(* credential and forward to the upstream API) and the account/favorites   *)
(* store (register, login, logout, favorites CRUD behind login_required).  *)
(*                                                                         *)
(* The proxy handlers share no state with the store handlers, so the two   *)
(* halves are explored by two specifications, SpecProxy and SpecStore,     *)
(* over the same variables; Spec is their union.                           *)
(***************************************************************************)
EXTENDS Integers, Sequences, FiniteSets, TLC

VARIABLES
    apiKey,        \* os.environ['EBIRD_API_KEY'] of each deployment
    obsPc,         \* position of the current observation request, per deployment
    obsOp,         \* which of the five handlers serves the current request
    obsReq,        \* the request: payload kind and fields
    upstreamCalls, \* upstream GETs issued for the current request, per deployment
    upstreamReply, \* what requests.get produced for the current request
    obsResp,       \* the response returned to the client, per deployment
    users,         \* table user, in insertion order
    favorites,     \* table favorite, in insertion order
    session,       \* flask-login session cookie of each client: a user id or 0
    pc,            \* position of the request each client has in flight
    cur,           \* request-local state of that request
    resp           \* the response to that request

proxyVars == <<apiKey, obsPc, obsOp, obsReq, upstreamCalls, upstreamReply, obsResp>>
storeVars == <<users, favorites, session, pc, cur, resp>>
vars == <<apiKey, obsPc, obsOp, obsReq, upstreamCalls, upstreamReply, obsResp,
          users, favorites, session, pc, cur, resp>>

(***************************************************************************)
(* Bounds                                                                  *)
(***************************************************************************)
\* longest upstream body text, in characters
MaxBodyLen == 3
\* largest primary key of table favorite (keys grow as rows come and go),
\* hence also the most rows it holds
MaxRowId == 2

(***************************************************************************)
(* Values                                                                  *)
(***************************************************************************)
\* A Python value as the handlers see it: None, a str or a number.  The
\* payload v is the value's str() form, so that f-strings are v itself.
None == [t |-> "none", v |-> ""]
Str(s) == [t |-> "str", v |-> s]
Num(s) == [t |-> "num", v |-> s]

\* Python truthiness, as used by `not x`
Truthy(x) ==
    \/ x.t = "str" /\ x.v # ""
    \/ x.t = "num" /\ x.v # "0"

\* Two deployments of the same program that differ at most in the credential
\* they were started with; both are sent the same requests and see the same
\* upstream replies.
Runs == {1, 2}

\* EBIRD_API_KEY: unset, set to the empty string, or one of two secrets
EnvKeys == {None, Str(""), Str("key-A"), Str("key-B")}

EBIRD_API_BASE == "https://api.ebird.org/v2"

Ops == {"observations", "nearby", "hotspot_info", "hotspot_nearby", "notable"}
PostOps == {"observations", "nearby", "notable"}

\* Field names each handler reads from the payload (POST) or the query (GET)
Fields(op) ==
    CASE op = "observations"   -> {"locationId", "speciesCode", "daysBack"}
      [] op = "nearby"         -> {"lat", "lng", "speciesCode", "dist", "daysBack"}
      [] op = "hotspot_info"   -> {"locId"}
      [] op = "hotspot_nearby" -> {"lat", "lng", "dist"}
      [] op = "notable"        -> {"lat", "lng", "dist", "daysBack"}

\* What a client may put in a field.  A field that is left out is None for
\* data.get(k) / request.args.get(k).  JSON payloads carry strings and
\* numbers; query strings carry strings only.  No client value is a secret.
FieldValues(op, f) ==
    IF op \in PostOps
    THEN CASE f \in {"lat", "lng"}                -> {None, Str(""), Num("0"), Num("45")}
           [] f \in {"locationId", "speciesCode"} -> {None, Str(""), Str("x1")}
           [] f \in {"dist", "daysBack"}          -> {None, Num("7")}
    ELSE CASE f \in {"lat", "lng"}                -> {None, Str(""), Str("0"), Str("45")}
           [] f = "locId"                         -> {None, Str(""), Str("L1")}
           [] f = "dist"                          -> {None, Str("7")}

\* A request: with a JSON object / query string (has = TRUE) or, for the POST
\* handlers, with no JSON payload at all (has = FALSE)
Payloads(op) == {f \in [Fields(op) -> UNION {FieldValues(op, g) : g \in Fields(op)}] :
                    \A g \in Fields(op) : f[g] \in FieldValues(op, g)}
NoData == [x \in {} |-> None]

\* str(e) of what request.json / data.get raise when the POST carries no
\* JSON object (the text depends on the Flask version)
PayloadErrors == {"415 Unsupported Media Type", "400 Bad Request",
                  "'NoneType' object has no attribute 'get'"}

Requests(op) ==
    {[has |-> TRUE, data |-> d, exc |-> ""] : d \in Payloads(op)}
    \cup (IF op \in PostOps
          THEN {[has |-> FALSE, data |-> NoData, exc |-> e] : e \in PayloadErrors}
          ELSE {})
NoRequest == [has |-> FALSE, data |-> NoData, exc |-> ""]

\* dict.get(key, default): the default only when the key is left out
Get(data, key, default) == IF data[key] = None THEN default ELSE data[key]

(***************************************************************************)
(* JSON texts: response.json() parses, jsonify() serialises                *)
(***************************************************************************)
\* Characters of an upstream body.  Bodies are all texts of at most
\* MaxBodyLen characters; "\n" is the newline jsonify appends.
Chars == {"[", "]", " ", "1"}
Digits == {"1"}
Whitespace == {" ", "\n"}
Texts == UNION {[1..n -> Chars] : n \in 0..MaxBodyLen}

\* A parsed JSON value: a number (its digits) or an array (its items)
JNum(ds) == [t |-> "num", digits |-> ds, items |-> <<>>]
JArr(xs) == [t |-> "arr", digits |-> <<>>, items |-> xs]
ParseFail == [ok |-> FALSE, val |-> JArr(<<>>), next |-> 0]
ParseOk(v, n) == [ok |-> TRUE, val |-> v, next |-> n]

RECURSIVE SkipWs(_, _)
SkipWs(s, i) == IF i <= Len(s) /\ s[i] \in Whitespace THEN SkipWs(s, i + 1) ELSE i

RECURSIVE NumEnd(_, _)
NumEnd(s, i) == IF i <= Len(s) /\ s[i] \in Digits THEN NumEnd(s, i + 1) ELSE i

\* One JSON value starting at position i (no leading whitespace)
RECURSIVE ParseValue(_, _)
ParseValue(s, i) ==
    IF i > Len(s) THEN ParseFail
    ELSE IF s[i] \in Digits
    THEN ParseOk(JNum(SubSeq(s, i, NumEnd(s, i) - 1)), NumEnd(s, i))
    ELSE IF s[i] = "["
    THEN LET j == SkipWs(s, i + 1) IN
         IF j <= Len(s) /\ s[j] = "]" THEN ParseOk(JArr(<<>>), j + 1)
         ELSE LET e == ParseValue(s, j) IN
              IF ~e.ok THEN ParseFail
              ELSE LET k == SkipWs(s, e.next) IN
                   IF k <= Len(s) /\ s[k] = "]"
                   THEN ParseOk(JArr(<<e.val>>), k + 1)
                   ELSE ParseFail
    ELSE ParseFail

\* response.json(): the whole text is one value between optional whitespace;
\* anything else raises
JsonLoads(s) ==
    LET e == ParseValue(s, SkipWs(s, 1)) IN
    IF e.ok /\ SkipWs(s, e.next) = Len(s) + 1 THEN e ELSE ParseFail

\* json.dumps with compact separators
RECURSIVE JsonDumps(_)
JsonDumps(v) ==
    IF v.t = "num" THEN v.digits
    ELSE IF v.items = <<>> THEN <<"[", "]">>
    ELSE <<"[">> \o JsonDumps(v.items[1]) \o <<"]">>

\* jsonify(value): the serialised value and a newline
Jsonify(v) == JsonDumps(v) \o <<"\n">>

(***************************************************************************)
(* Responses of the observation handlers                                   *)
(***************************************************************************)
\* jsonify({'error': error}), status
ErrorResponse(status, error) ==
    [status |-> status, isError |-> TRUE, error |-> error,
     hasMessage |-> FALSE, message |-> <<>>, body |-> <<>>]

\* jsonify({'error': error, 'message': text}), status
EnvelopeResponse(status, error, text) ==
    [status |-> status, isError |-> TRUE, error |-> error,
     hasMessage |-> TRUE, message |-> text, body |-> <<>>]

\* jsonify(value) with the default status 200
JsonResponse(v) ==
    [status |-> 200, isError |-> FALSE, error |-> "",
     hasMessage |-> FALSE, message |-> <<>>, body |-> Jsonify(v)]

NoResponse == ErrorResponse(0, "")

\* str(e) of what requests.get raises on a transport failure
TransportErrors == {"Name or service not known", "Read timed out",
                    "Connection reset by peer"}
\* str(e) of what response.json() raises
JsonDecodeError == "Expecting value"

UpstreamStatuses == {200, 404, 429, 500}

(***************************************************************************)
(* The five observation handlers                                           *)
(***************************************************************************)
\* The fields each handler tests with `not x` before calling upstream
Required(op) ==
    CASE op = "observations"   -> {"locationId", "speciesCode"}
      [] op = "nearby"         -> {"lat", "lng", "speciesCode"}
      [] op = "hotspot_info"   -> {"locId"}
      [] op = "hotspot_nearby" -> {"lat", "lng"}
      [] op = "notable"        -> {"lat", "lng"}

MissingMessage(op) ==
    CASE op \in PostOps        -> "Missing required parameters"
      [] op = "hotspot_info"   -> "Missing locId parameter"
      [] op = "hotspot_nearby" -> "Missing lat/lng parameters"

\* The upstream URL, as its path segments
Url(op, data) ==
    CASE op = "observations" ->
            <<EBIRD_API_BASE, "data/obs", data["locationId"].v, "recent", data["speciesCode"].v>>
      [] op = "nearby" ->
            <<EBIRD_API_BASE, "data/nearest/geo/recent", data["speciesCode"].v>>
      [] op = "hotspot_info" ->
            <<EBIRD_API_BASE, "ref/hotspot/info", data["locId"].v>>
      [] op = "hotspot_nearby" ->
            <<EBIRD_API_BASE, "ref/hotspot/geo">>
      [] op = "notable" ->
            <<EBIRD_API_BASE, "data/obs/geo/recent/notable">>

\* The query parameters of the upstream GET, with the handlers' defaults
Params(op, data) ==
    CASE op = "observations" ->
            [p \in {"back"} |-> Get(data, "daysBack", Num("30"))]
      [] op = "nearby" ->
            [p \in {"lat", "lng", "dist", "back", "sort"} |->
                CASE p = "lat"  -> data["lat"]
                  [] p = "lng"  -> data["lng"]
                  [] p = "dist" -> Get(data, "dist", Num("25"))
                  [] p = "back" -> Get(data, "daysBack", Num("14"))
                  [] p = "sort" -> Str("date")]
      [] op = "hotspot_info" ->
            [p \in {"fmt"} |-> Str("json")]
      [] op = "hotspot_nearby" ->
            [p \in {"lat", "lng", "dist", "fmt"} |->
                CASE p = "lat"  -> data["lat"]
                  [] p = "lng"  -> data["lng"]
                  [] p = "dist" -> Get(data, "dist", Num("25"))
                  [] p = "fmt"  -> Str("json")]
      [] op = "notable" ->
            [p \in {"lat", "lng", "dist", "back", "detail"} |->
                CASE p = "lat"    -> data["lat"]
                  [] p = "lng"    -> data["lng"]
                  [] p = "dist"   -> Get(data, "dist", Num("25"))
                  [] p = "back"   -> Get(data, "daysBack", Num("14"))
                  [] p = "detail" -> Str("full")]

\* headers = {'X-eBirdApiToken': api_key}
Headers(key) == [h \in {"X-eBirdApiToken"} |-> key]

\* Mutant: the credential also travels as a query parameter
UpstreamCall_KeyInQuery(op, data, key) ==
    [url |-> Url(op, data),
     params |-> [p \in DOMAIN Params(op, data) \cup {"key"} |->
                    IF p = "key" THEN key ELSE Params(op, data)[p]],
     headers |-> Headers(key)]

\* requests.get(url, params=params, headers=headers)
UpstreamCall(op, data, key) ==
    [url |-> Url(op, data), params |-> Params(op, data), headers |-> Headers(key)]

\* The handler up to its call of requests.get: "raise" when reading the
\* payload raises, "config" when the credential is missing, "missing" when a
\* required field is, "call" otherwise
Check(op, req, key) ==
    IF ~req.has THEN "raise"
    ELSE IF ~Truthy(key) THEN "config"
    ELSE IF \E f \in Required(op) : ~Truthy(req.data[f]) THEN "missing"
    ELSE "call"

\* The response of a handler that returns before calling upstream
EarlyResponse(op, req, key) ==
    CASE Check(op, req, key) = "raise"   -> ErrorResponse(500, req.exc)
      [] Check(op, req, key) = "config"  ->
            ErrorResponse(500, "Server configuration error: API key missing")
      [] Check(op, req, key) = "missing" -> ErrorResponse(400, MissingMessage(op))
      [] OTHER -> NoResponse

\* f'eBird API error: {status}' in the POST handlers, f'eBird error {status}'
\* in the GET handlers
UpstreamErrorText(op, status) ==
    IF op \in PostOps THEN "eBird API error: " \o ToString(status)
    ELSE "eBird error " \o ToString(status)

\* Mutant: every upstream error becomes a fixed 502
ReplyResponse_Fixed502(op, status, text) ==
    IF status = 200
    THEN IF JsonLoads(text).ok THEN JsonResponse(JsonLoads(text).val)
         ELSE ErrorResponse(500, JsonDecodeError)
    ELSE EnvelopeResponse(502, UpstreamErrorText(op, status), text)

\* Mutant: a 200 body is passed on without parsing it
ReplyResponse_NoParse(op, status, text) ==
    IF status = 200
    THEN [status |-> 200, isError |-> FALSE, error |-> "",
          hasMessage |-> FALSE, message |-> <<>>, body |-> text]
    ELSE EnvelopeResponse(status, UpstreamErrorText(op, status), text)

\* The handler after requests.get returned a response
ReplyResponse(op, status, text) ==
    IF status = 200
    THEN IF JsonLoads(text).ok THEN JsonResponse(JsonLoads(text).val)
         ELSE ErrorResponse(500, JsonDecodeError)
    ELSE EnvelopeResponse(status, UpstreamErrorText(op, status), text)

NoReply == [kind |-> "none", status |-> 0, text |-> <<>>, exc |-> ""]

\* The server is free to take an observation request
ObsIdle == \A r \in Runs : obsPc[r] = "idle"

\* Request req arrives at handler op.  Every deployment runs the handler up
\* to its return or its call of requests.get.
Handle(op, req) ==
    /\ obsReq' = req
    /\ upstreamReply' = NoReply
    /\ obsPc' = [r \in Runs |->
                    IF Check(op, req, apiKey[r]) = "call" THEN "wait" ELSE "done"]
    /\ upstreamCalls' = [r \in Runs |->
                    IF Check(op, req, apiKey[r]) = "call"
                    THEN <<UpstreamCall(op, req.data, apiKey[r])>> ELSE <<>>]
    /\ obsResp' = [r \in Runs |-> EarlyResponse(op, req, apiKey[r])]
    /\ UNCHANGED <<apiKey, storeVars>>

\* POST /api/observations
get_observations ==
    /\ ObsIdle
    /\ obsOp' = "observations"
    /\ \E req \in Requests("observations") : Handle("observations", req)
\* POST /api/nearby
get_nearby_observations ==
    /\ ObsIdle
    /\ obsOp' = "nearby"
    /\ \E req \in Requests("nearby") : Handle("nearby", req)
\* GET /api/hotspot/info
get_hotspot_info ==
    /\ ObsIdle
    /\ obsOp' = "hotspot_info"
    /\ \E req \in Requests("hotspot_info") : Handle("hotspot_info", req)
\* GET /api/hotspot/nearby
get_nearby_hotspots ==
    /\ ObsIdle
    /\ obsOp' = "hotspot_nearby"
    /\ \E req \in Requests("hotspot_nearby") : Handle("hotspot_nearby", req)
\* POST /api/notable
get_notable_observations ==
    /\ ObsIdle
    /\ obsOp' = "notable"
    /\ \E req \in Requests("notable") : Handle("notable", req)

\* requests.get returns a response: the handler forwards it
UpstreamReturns ==
    /\ \E r \in Runs : obsPc[r] = "wait"
    /\ \E status \in UpstreamStatuses : \E text \in Texts :
        /\ upstreamReply' = [kind |-> "http", status |-> status, text |-> text, exc |-> ""]
        /\ obsResp' = [r \in Runs |->
                        IF obsPc[r] = "wait" THEN ReplyResponse(obsOp, status, text)
                        ELSE obsResp[r]]
    /\ obsPc' = [r \in Runs |-> "done"]
    /\ UNCHANGED <<apiKey, obsOp, obsReq, upstreamCalls, storeVars>>

\* Mutant: a transport failure is retried
UpstreamRaises_Retry ==
    /\ \E r \in Runs : obsPc[r] = "wait"
    /\ upstreamCalls' = [r \in Runs |->
                        IF obsPc[r] = "wait"
                        THEN Append(upstreamCalls[r], upstreamCalls[r][1])
                        ELSE upstreamCalls[r]]
    /\ UNCHANGED <<apiKey, obsPc, obsOp, obsReq, upstreamReply, obsResp, storeVars>>

\* requests.get raises: the handler's except clause answers 500
UpstreamRaises ==
    /\ \E r \in Runs : obsPc[r] = "wait"
    /\ \E e \in TransportErrors :
        /\ upstreamReply' = [kind |-> "exc", status |-> 0, text |-> <<>>, exc |-> e]
        /\ obsResp' = [r \in Runs |->
                        IF obsPc[r] = "wait" THEN ErrorResponse(500, e) ELSE obsResp[r]]
    /\ obsPc' = [r \in Runs |-> "done"]
    /\ UNCHANGED <<apiKey, obsOp, obsReq, upstreamCalls, storeVars>>

\* The response has been sent: the request's state is discarded and the
\* server takes the next request
ObsFinish ==
    /\ \A r \in Runs : obsPc[r] = "done"
    /\ obsPc' = [r \in Runs |-> "idle"]
    /\ obsOp' = "observations"
    /\ obsReq' = NoRequest
    /\ upstreamCalls' = [r \in Runs |-> <<>>]
    /\ upstreamReply' = NoReply
    /\ obsResp' = [r \in Runs |-> NoResponse]
    /\ UNCHANGED <<apiKey, storeVars>>

NextProxy ==
    \/ get_observations
    \/ get_nearby_observations
    \/ get_hotspot_info
    \/ get_nearby_hotspots
    \/ get_notable_observations
    \/ UpstreamReturns
    \/ UpstreamRaises
    \/ ObsFinish

InitProxy ==
    /\ apiKey \in [Runs -> EnvKeys]
    /\ obsPc = [r \in Runs |-> "idle"]
    /\ obsOp = "observations"
    /\ obsReq = NoRequest
    /\ upstreamCalls = [r \in Runs |-> <<>>]
    /\ upstreamReply = NoReply
    /\ obsResp = [r \in Runs |-> NoResponse]


(***************************************************************************)
(* The account and favorites store                                         *)
(***************************************************************************)
\* Browsers, each with its own session cookie and at most one request in
\* flight; requests of different browsers are served concurrently
Clients == {"c1", "c2"}

\* What clients submit; "" is an empty (or missing) field
Usernames == {"alice", "bob"}
\* Passwords chosen at registration, and those tried at login
Passwords == {"pw1"}
LoginPasswords == {"pw1", "pw2"}
\* A password field that is not a str (JSON null, or the field left out)
JsonNull == "<null>"
Salts == {"s1"}
Hotspots == {"L1", "L2"}
HotspotNames == {"Park"}

\* generate_password_hash(password): a salted one-way digest
generate_password_hash(password, salt) ==
    [salt |-> salt, digest |-> <<"pbkdf2", salt, password>>]
\* check_password_hash(pwhash, password): re-hash with the stored salt
check_password_hash(pwhash, password) ==
    pwhash.digest = <<"pbkdf2", pwhash.salt, password>>
\* check_password_hash calls password.encode(): it raises unless password is a str
HashRaises(password) == password = JsonNull

Min(S) == CHOOSE x \in S : \A y \in S : x <= y
Max(S) == CHOOSE x \in S : \A y \in S : x >= y
\* The primary key given to a new row: an INTEGER PRIMARY KEY of the default
\* SQLite store is one more than the largest key in use
NextId(rows) == IF rows = <<>> THEN 1 ELSE Max({rows[i].id : i \in 1..Len(rows)}) + 1
\* The table without the row at index i
RemoveAt(rows, i) == [k \in 1..(Len(rows) - 1) |-> IF k < i THEN rows[k] ELSE rows[k + 1]]

\* Mutant: the lookup by username finds nothing
UserByName_Never(username) == 0

\* User.query.filter_by(username=username).first(): a row index, or 0
UserByName(username) ==
    LET m == {i \in 1..Len(users) : users[i].username = username} IN
    IF m = {} THEN 0 ELSE Min(m)

\* Mutant: the username column has no unique constraint
UniqueViolation_Off(rows, username) == FALSE

\* unique=True on user.username: the insert of a taken username fails
UniqueViolation(rows, username) == \E i \in 1..Len(rows) : rows[i].username = username

\* Mutant: the add handler never finds an existing favorite
ExistingFavorite_Never(uid, hid) == 0

\* Favorite.query.filter_by(user_id=uid, hotspot_id=hid).first() in
\* manage_favorites: a row index, or 0
ExistingFavorite(uid, hid) ==
    LET m == {i \in 1..Len(favorites) :
                favorites[i].user_id = uid /\ favorites[i].hotspot_id = hid} IN
    IF m = {} THEN 0 ELSE Min(m)

\* Favorite.query.filter_by(user_id=uid, hotspot_id=hid).first() in
\* delete_favorite: a row index, or 0
FavoriteToDelete(uid, hid) ==
    LET m == {i \in 1..Len(favorites) :
                favorites[i].user_id = uid /\ favorites[i].hotspot_id = hid} IN
    IF m = {} THEN 0 ELSE Min(m)

\* Favorite.query.filter_by(user_id=uid).all() as [{'id', 'name'}]
ListFavorites(rows, uid) ==
    LET own == SelectSeq(rows, LAMBDA f : f.user_id = uid) IN
    [i \in 1..Len(own) |-> [id |-> own[i].hotspot_id, name |-> own[i].hotspot_name]]

\* load_user(user_id): User.query.get(user_id)
load_user(user_id) == users[Min({i \in 1..Len(users) : users[i].id = user_id})]

\* Mutant: the handlers are not gated
LoginRequired_Open(uid) == TRUE

\* @login_required: current_user.is_authenticated
LoginRequired(uid) == uid # 0

\* Responses.  json tells a body built by jsonify from an error page that
\* Flask itself produces (abort, or an exception no handler caught).
NoUser == [id |-> 0, username |-> ""]
Reply(status, text) == [status |-> status, text |-> text, user |-> NoUser,
                        authenticated |-> FALSE, favs |-> <<>>, json |-> TRUE]
UserReply(text, u) == [status |-> 200, text |-> text,
                       user |-> [id |-> u.id, username |-> u.username],
                       authenticated |-> TRUE, favs |-> <<>>, json |-> TRUE]
ListReply(favs) == [status |-> 200, text |-> "", user |-> NoUser,
                    authenticated |-> FALSE, favs |-> favs, json |-> TRUE]
ErrorPage(status, text) == [status |-> status, text |-> text, user |-> NoUser,
                            authenticated |-> FALSE, favs |-> <<>>, json |-> FALSE]
Unauthorized == ErrorPage(401, "Unauthorized")
NotFound == Reply(404, "Not found")
NoReplyYet == Reply(0, "")

\* What Flask answers when request.json / data.get raise outside any try
\* (which one depends on the Flask version)
PayloadErrorPages == {ErrorPage(415, "Unsupported Media Type"),
                      ErrorPage(500, "Internal Server Error")}
\* What Flask answers to any other exception no handler caught
InternalErrorPage == ErrorPage(500, "Internal Server Error")
\* str(e) of a store failure other than a broken constraint
StoreError == "OperationalError"

\* Request-local state; exc is the exception raised while handling, if any
Request(op, c, a, b) ==
    [op |-> op, uid |-> session[c], a |-> a, b |-> b, fav |-> 0, exc |-> ""]
NoCur == [op |-> "none", uid |-> 0, a |-> "", b |-> "", fav |-> 0, exc |-> ""]
\* The request of client c, with exception e raised
Raised(c, e) == [cur EXCEPT ![c].exc = e]

\* A response is sent before any request takes its next step
Quiet == \A c \in Clients : pc[c] # "done"

\* The handler serving client c returns response r
Return(c, r) ==
    /\ pc' = [pc EXCEPT ![c] = "done"]
    /\ resp' = [resp EXCEPT ![c] = r]

\* POST /api/register, up to the commit
register(c, has, username, password) ==
    /\ Quiet
    /\ pc[c] = "idle"
    /\ IF ~has
       THEN \* request.json / data.get raise before the try block
            /\ cur' = [cur EXCEPT ![c] =
                         [Request("register", c, "", "") EXCEPT !.exc = "no payload"]]
            /\ \E r \in PayloadErrorPages : Return(c, r)
       ELSE /\ cur' = [cur EXCEPT ![c] = Request("register", c, username, password)]
            /\ IF username = "" \/ password = ""
               THEN Return(c, Reply(400, "Username and password required"))
               ELSE IF UserByName(username) # 0
               THEN Return(c, Reply(400, "Username already exists"))
               ELSE /\ pc' = [pc EXCEPT ![c] = "register_commit"]
                    /\ UNCHANGED resp
    /\ UNCHANGED <<users, favorites, session, proxyVars>>

\* Mutant: the new user is logged in before the commit, and stays so
register_commit_LoginFirst(c) ==
    /\ Quiet
    /\ pc[c] = "register_commit"
    /\ \E salt \in Salts :
        LET u == [id |-> NextId(users), username |-> cur[c].a,
                  password_hash |-> generate_password_hash(cur[c].b, salt)] IN
        /\ session' = [session EXCEPT ![c] = u.id]
        /\ \/ /\ cur' = Raised(c, StoreError)
              /\ Return(c, Reply(500, StoreError))
              /\ UNCHANGED users
           \/ /\ ~UniqueViolation(users, cur[c].a)
              /\ users' = Append(users, u)
              /\ Return(c, UserReply("Registration successful", u))
              /\ UNCHANGED cur
    /\ UNCHANGED <<favorites, proxyVars>>

\* register: db.session.commit() and what follows it
register_commit(c) ==
    /\ Quiet
    /\ pc[c] = "register_commit"
    /\ IF UniqueViolation(users, cur[c].a)
       THEN \* IntegrityError: rollback, 500
            /\ cur' = Raised(c, "IntegrityError")
            /\ Return(c, Reply(500, "IntegrityError"))
            /\ UNCHANGED <<users, session>>
       ELSE \/ \* the store fails: rollback, 500
               /\ cur' = Raised(c, StoreError)
               /\ Return(c, Reply(500, StoreError))
               /\ UNCHANGED <<users, session>>
            \/ \E salt \in Salts :
               LET u == [id |-> NextId(users), username |-> cur[c].a,
                         password_hash |-> generate_password_hash(cur[c].b, salt)] IN
               /\ users' = Append(users, u)
               /\ session' = [session EXCEPT ![c] = u.id]
               /\ Return(c, UserReply("Registration successful", u))
               /\ UNCHANGED cur
    /\ UNCHANGED <<favorites, proxyVars>>

\* POST /api/login
login(c, has, username, password) ==
    /\ Quiet
    /\ pc[c] = "idle"
    /\ IF ~has
       THEN \* request.json / data.get raise; login has no try block
            /\ cur' = [cur EXCEPT ![c] =
                         [Request("login", c, "", "") EXCEPT !.exc = "no payload"]]
            /\ \E r \in PayloadErrorPages : Return(c, r)
            /\ UNCHANGED session
       ELSE LET i == UserByName(username) IN
            IF i # 0 /\ HashRaises(password)
            THEN \* user.check_password(password) raises
                 /\ cur' = [cur EXCEPT ![c] =
                              [Request("login", c, username, password)
                                 EXCEPT !.exc = "AttributeError"]]
                 /\ Return(c, InternalErrorPage)
                 /\ UNCHANGED session
            ELSE /\ cur' = [cur EXCEPT ![c] = Request("login", c, username, password)]
                 /\ IF i # 0 /\ check_password_hash(users[i].password_hash, password)
                    THEN /\ session' = [session EXCEPT ![c] = users[i].id]
                         /\ Return(c, UserReply("Login successful", users[i]))
                    ELSE /\ Return(c, Reply(401, "Invalid username or password"))
                         /\ UNCHANGED session
    /\ UNCHANGED <<users, favorites, proxyVars>>

\* Mutant: logout answers 200 and leaves the session as it is
logout_KeepsSession(c) ==
    /\ Quiet
    /\ pc[c] = "idle"
    /\ cur' = [cur EXCEPT ![c] = Request("logout", c, "", "")]
    /\ IF ~LoginRequired(session[c])
       THEN Return(c, Unauthorized)
       ELSE Return(c, Reply(200, "Logged out successfully"))
    /\ UNCHANGED <<users, favorites, session, proxyVars>>

\* POST /api/logout
logout(c) ==
    /\ Quiet
    /\ pc[c] = "idle"
    /\ cur' = [cur EXCEPT ![c] = Request("logout", c, "", "")]
    /\ IF ~LoginRequired(session[c])
       THEN /\ Return(c, Unauthorized)
            /\ UNCHANGED session
       ELSE /\ session' = [session EXCEPT ![c] = 0]
            /\ Return(c, Reply(200, "Logged out successfully"))
    /\ UNCHANGED <<users, favorites, proxyVars>>

\* GET /api/user
get_current_user(c) ==
    /\ Quiet
    /\ pc[c] = "idle"
    /\ cur' = [cur EXCEPT ![c] = Request("whoami", c, "", "")]
    /\ IF session[c] # 0
       THEN Return(c, UserReply("", load_user(session[c])))
       ELSE Return(c, Reply(200, ""))
    /\ UNCHANGED <<users, favorites, session, proxyVars>>

\* GET /api/favorites
list_favorites(c) ==
    /\ Quiet
    /\ pc[c] = "idle"
    /\ cur' = [cur EXCEPT ![c] = Request("list", c, "", "")]
    /\ IF ~LoginRequired(session[c])
       THEN Return(c, Unauthorized)
       ELSE Return(c, ListReply(ListFavorites(favorites, session[c])))
    /\ UNCHANGED <<users, favorites, session, proxyVars>>

\* Inserts into table favorite that are about to happen
Inserting == Cardinality({c \in Clients : pc[c] = "add_commit"})
\* There is a primary key left for one more insert
RoomForFavorite == NextId(favorites) + Inserting <= MaxRowId

\* POST /api/favorites, up to the insert
add_favorite(c, has, hotspot_id, hotspot_name) ==
    /\ Quiet
    /\ pc[c] = "idle"
    /\ cur' = [cur EXCEPT ![c] =
                 [Request("add", c, hotspot_id, hotspot_name) EXCEPT
                    !.exc = IF LoginRequired(session[c]) /\ ~has
                            THEN "no payload" ELSE ""]]
    /\ IF ~LoginRequired(session[c])
       THEN Return(c, Unauthorized)
       ELSE IF ~has
       THEN \* request.json / data.get raise; manage_favorites has no try block
            \E r \in PayloadErrorPages : Return(c, r)
       ELSE IF hotspot_id = "" \/ hotspot_name = ""
       THEN Return(c, Reply(400, "Missing id or name"))
       ELSE IF ExistingFavorite(session[c], hotspot_id) # 0
       THEN Return(c, Reply(200, "Already in favorites"))
       ELSE /\ RoomForFavorite
            /\ pc' = [pc EXCEPT ![c] = "add_commit"]
            /\ UNCHANGED resp
    /\ UNCHANGED <<users, favorites, session, proxyVars>>

\* POST /api/favorites: db.session.add(new_fav); db.session.commit()
add_commit(c) ==
    /\ Quiet
    /\ pc[c] = "add_commit"
    /\ \/ /\ favorites' = Append(favorites,
                         [id |-> NextId(favorites), user_id |-> cur[c].uid,
                          hotspot_id |-> cur[c].a, hotspot_name |-> cur[c].b])
          /\ Return(c, Reply(200, "Added to favorites"))
          /\ UNCHANGED cur
       \/ \* the store fails: nothing catches the exception
          /\ cur' = Raised(c, StoreError)
          /\ Return(c, InternalErrorPage)
          /\ UNCHANGED favorites
    /\ UNCHANGED <<users, session, proxyVars>>

\* DELETE /api/favorites/<hotspot_id>, up to the delete
delete_favorite(c, hotspot_id) ==
    /\ Quiet
    /\ pc[c] = "idle"
    /\ IF ~LoginRequired(session[c])
       THEN /\ cur' = [cur EXCEPT ![c] = Request("remove", c, hotspot_id, "")]
            /\ Return(c, Unauthorized)
       ELSE LET i == FavoriteToDelete(session[c], hotspot_id) IN
            IF i = 0
            THEN /\ cur' = [cur EXCEPT ![c] = Request("remove", c, hotspot_id, "")]
                 /\ Return(c, NotFound)
            ELSE /\ cur' = [cur EXCEPT ![c] =
                              [Request("remove", c, hotspot_id, "") EXCEPT !.fav = favorites[i].id]]
                 /\ pc' = [pc EXCEPT ![c] = "delete_commit"]
                 /\ UNCHANGED resp
    /\ UNCHANGED <<users, favorites, session, proxyVars>>

\* delete_favorite: db.session.delete(fav); db.session.commit().  When a
\* concurrent request deleted the row first, the DELETE matches no row:
\* SQLAlchemy then warns (the handler answers 200) or raises, and nothing
\* catches the exception; so it is when the store fails.
delete_commit(c) ==
    /\ Quiet
    /\ pc[c] = "delete_commit"
    /\ LET m == {i \in 1..Len(favorites) : favorites[i].id = cur[c].fav} IN
       \/ /\ m # {}
          /\ favorites' = RemoveAt(favorites, Min(m))
          /\ Return(c, Reply(200, "Deleted"))
          /\ UNCHANGED cur
       \/ /\ m = {}
          /\ Return(c, Reply(200, "Deleted"))
          /\ UNCHANGED <<favorites, cur>>
       \/ /\ cur' = Raised(c, IF m = {} THEN "StaleDataError" ELSE StoreError)
          /\ Return(c, InternalErrorPage)
          /\ UNCHANGED favorites
    /\ UNCHANGED <<users, session, proxyVars>>

\* The response has been sent: the client may send its next request
finish(c) ==
    /\ pc[c] = "done"
    /\ pc' = [pc EXCEPT ![c] = "idle"]
    /\ cur' = [cur EXCEPT ![c] = NoCur]
    /\ resp' = [resp EXCEPT ![c] = NoReplyYet]
    /\ UNCHANGED <<users, favorites, session, proxyVars>>

NextStore ==
    \E c \in Clients :
        \/ \E u \in Usernames \cup {""} : \E p \in Passwords \cup {""} :
              register(c, TRUE, u, p)
        \/ register(c, FALSE, "", "")
        \/ \E u \in Usernames \cup {""} : \E p \in LoginPasswords \cup {"", JsonNull} :
              login(c, TRUE, u, p)
        \/ login(c, FALSE, "", "")
        \/ logout(c)
        \/ get_current_user(c)
        \/ list_favorites(c)
        \/ \E h \in Hotspots \cup {""} : \E n \in HotspotNames \cup {""} :
              add_favorite(c, TRUE, h, n)
        \/ add_favorite(c, FALSE, "", "")
        \/ \E h \in Hotspots : delete_favorite(c, h)
        \/ register_commit(c)
        \/ add_commit(c)
        \/ delete_commit(c)
        \/ finish(c)

InitStore ==
    /\ users = <<>>
    /\ favorites = <<>>
    /\ session = [c \in Clients |-> 0]
    /\ pc = [c \in Clients |-> "idle"]
    /\ cur = [c \in Clients |-> NoCur]
    /\ resp = [c \in Clients |-> NoReplyYet]

Init == InitProxy /\ InitStore

Next == NextProxy \/ NextStore

SpecProxy == Init /\ [][NextProxy]_vars
\* The store handlers never read the credential: one setting of it is enough
InitOneKey == Init /\ apiKey = [r \in Runs |-> Str("key-A")]
SpecStore == InitOneKey /\ [][NextStore]_vars
Spec == Init /\ [][Next]_vars

(***************************************************************************)
(* Claims about the store (checked under SpecStore)                        *)
(***************************************************************************)
UserIds == {users[i].id : i \in 1..Len(users)}
\* The rows of table favorite owned by user uid, in table order
OwnedBy(rows, uid) == SelectSeq(rows, LAMBDA f : f.user_id = uid)
\* Client c's request takes a step
Steps(c) == pc'[c] # pc[c]
\* Client c's request arrives
Arrives(c, ops) == pc[c] = "idle" /\ pc'[c] # "idle" /\ cur'[c].op \in ops

\* C1: table favorite never holds two rows with the same (user_id,
\* hotspot_id), whatever the interleaving of the add requests.
C1_NoDuplicateFavorite ==
    \A i, j \in 1..Len(favorites) :
        (i # j) => ~(/\ favorites[i].user_id = favorites[j].user_id
                     /\ favorites[i].hotspot_id = favorites[j].hotspot_id)

\* C2: no step of an add or remove made under user A's session changes the
\* rows owned by another user; a remove by A of a hotspot A has not
\* favorited is answered 404 and leaves the table as it is.
C2_OwnershipIsolation ==
    [][\A c \in Clients :
        (Steps(c) /\ cur'[c].op \in {"add", "remove"})
            => /\ \A b \in UserIds \ {cur'[c].uid} :
                    OwnedBy(favorites', b) = OwnedBy(favorites, b)
               /\ (/\ Arrives(c, {"remove"})
                   /\ cur'[c].uid # 0
                   /\ OwnedBy(favorites, cur'[c].uid) = <<>>)
                     => /\ pc'[c] = "done"
                        /\ resp'[c] = NotFound
                        /\ favorites' = favorites]_vars

\* C3: a list, add, remove or logout without an authenticated session is
\* answered 401 at once and changes neither table nor any session.
C3_GateRejects ==
    [][\A c \in Clients :
        (Arrives(c, {"list", "add", "remove", "logout"}) /\ session[c] = 0)
            => /\ pc'[c] = "done"
               /\ resp'[c].status = 401
               /\ UNCHANGED <<users, favorites, session>>]_vars

C3_Witness ==
    \E c \in Clients :
        /\ pc[c] = "done"
        /\ cur[c].op = "remove"
        /\ session[c] = 0
        /\ resp[c].status = 401
        /\ favorites # <<>>
        /\ \E d \in Clients : session[d] # 0

\* C10: no two rows of table user have the same username, whatever the
\* interleaving of the register requests.
C10_UniqueUsernames ==
    \A i, j \in 1..Len(users) : (i # j) => users[i].username # users[j].username

\* Two registrations of one username raced: the later commit was refused
C10_Witness ==
    \E c \in Clients :
        /\ pc[c] = "done"
        /\ cur[c].op = "register"
        /\ resp[c] = Reply(500, "IntegrityError")
        /\ Len(users) = 1

\* Table user holds a row with this username
Registered(username) == \E i \in 1..Len(users) : users[i].username = username
\* Client c's request carries a payload with both of its fields non-empty
WellFormed(c) == cur'[c].exc = "" /\ cur'[c].a # "" /\ cur'[c].b # ""
\* Client c's request is answered in this step
Answers(c) == pc[c] # "done" /\ pc'[c] = "done"

\* C11: a register with a non-empty username and password that finds the
\* username free goes on to the commit, and a commit that raises nothing
\* answers 200 with the new row's {id, username} and logs the client in as
\* that user; every register that arrives once the username is in the table
\* is answered 400 'Username already exists' and adds no row.
C11_RegisterThenConflict ==
    [][\A c \in Clients :
        /\ (Arrives(c, {"register"}) /\ WellFormed(c))
              => IF Registered(cur'[c].a)
                 THEN /\ pc'[c] = "done"
                      /\ resp'[c] = Reply(400, "Username already exists")
                      /\ users' = users
                      /\ session' = session
                 ELSE pc'[c] = "register_commit"
        /\ (pc[c] = "register_commit" /\ Answers(c) /\ cur'[c].exc = "")
              => /\ resp'[c].status = 200
                 /\ Len(users') = Len(users) + 1
                 /\ SubSeq(users', 1, Len(users)) = users
                 /\ users'[Len(users')].username = cur[c].a
                 /\ resp'[c].user = [id |-> users'[Len(users')].id,
                                     username |-> cur[c].a]
                 /\ session'[c] = resp'[c].user.id]_vars

\* A second registration of a username is refused while its owner is logged in
C11_Witness ==
    \E c, d \in Clients :
        /\ c # d
        /\ pc[c] = "done"
        /\ cur[c].op = "register"
        /\ resp[c] = Reply(400, "Username already exists")
        /\ session[d] # 0
        /\ load_user(session[d]).username = cur[c].a

\* C12: whatever password is submitted, a login that names no registered
\* user and a login that names a registered user with a password that does
\* not match are both answered 401 'Invalid username or password', and
\* neither changes a session.
C12_UniformLoginFailure ==
    [][\A c \in Clients :
        (/\ Arrives(c, {"login"})
         /\ cur'[c].exc # "no payload"
         /\ LET i == UserByName(cur'[c].a) IN
              \/ i = 0
              \/ ~check_password_hash(users[i].password_hash, cur'[c].b))
            => /\ pc'[c] = "done"
               /\ resp'[c] = Reply(401, "Invalid username or password")
               /\ session' = session]_vars

\* C13: an add of a hotspot id with a name, by a user who already has a row
\* for that hotspot id, is answered 200 and leaves table favorite, and so
\* the user's list, as it is.
C13_RepeatedAddIsNoOp ==
    [][\A c \in Clients :
        (/\ Arrives(c, {"add"})
         /\ cur'[c].uid # 0
         /\ WellFormed(c)
         /\ \E i \in 1..Len(favorites) :
               /\ favorites[i].user_id = cur'[c].uid
               /\ favorites[i].hotspot_id = cur'[c].a)
            => /\ pc'[c] = "done"
               /\ resp'[c].status = 200
               /\ resp'[c].json
               /\ favorites' = favorites]_vars

\* A repeated add was answered without a second row
C13_Witness ==
    \E c \in Clients :
        /\ pc[c] = "done"
        /\ cur[c].op = "add"
        /\ resp[c] = Reply(200, "Already in favorites")
        /\ Len(OwnedBy(favorites, cur[c].uid)) = 1

\* C14: whoAmI is always answered 200: authenticated with the id and
\* username of the user the client last logged in or registered as, and
\* not authenticated when there is none.  A client's session changes only
\* by its own successful login or register (to that user) and by its own
\* logout (to none); a logout with a session always ends it; rows of table
\* user never change; without a session list, add, remove and logout are
\* answered 401.
C14_SessionLifecycle ==
    [][\A c \in Clients :
        /\ Arrives(c, {"whoami"})
              => /\ pc'[c] = "done"
                 /\ resp'[c].status = 200
                 /\ resp'[c].json
                 /\ resp'[c].authenticated = (session[c] # 0)
                 /\ (session[c] # 0)
                       => /\ resp'[c].user.id = session[c]
                          /\ \E i \in 1..Len(users) :
                                /\ users[i].id = session[c]
                                /\ users[i].username = resp'[c].user.username
                 /\ session' = session
        /\ (session'[c] # session[c])
              => /\ Answers(c)
                 /\ resp'[c].status = 200
                 /\ \/ /\ cur'[c].op \in {"login", "register"}
                       /\ session'[c] = resp'[c].user.id
                       /\ resp'[c].user.username = cur'[c].a
                       /\ \E i \in 1..Len(users') :
                             /\ users'[i].id = session'[c]
                             /\ users'[i].username = cur'[c].a
                    \/ /\ cur'[c].op = "logout"
                       /\ session'[c] = 0
        /\ (Answers(c) /\ cur'[c].op \in {"login", "register"} /\ resp'[c].status = 200)
              => session'[c] = resp'[c].user.id
        /\ (Arrives(c, {"logout"}) /\ session[c] # 0)
              => (resp'[c].status = 200 /\ session'[c] = 0)
        /\ (Arrives(c, {"list", "add", "remove", "logout"}) /\ session[c] = 0)
              => (pc'[c] = "done" /\ resp'[c].status = 401)
        /\ \A i \in 1..Len(users) : Len(users') >= i /\ users'[i] = users[i]]_vars

\* whoAmI names the second user while another client is logged out again
C14_Witness ==
    \E c, d \in Clients :
        /\ pc[c] = "done"
        /\ cur[c].op = "whoami"
        /\ resp[c].authenticated
        /\ resp[c].user.username = "bob"
        /\ Len(users) = 2
        /\ session[d] = 0

\* C16: whenever an exception is raised while one of the store handlers
\* serves a request, the response is a 500 with the JSON error envelope.
C16_ExceptionsBecomeEnvelopes ==
    \A c \in Clients :
        (pc[c] = "done" /\ cur[c].exc # "")
            => (resp[c].status = 500 /\ resp[c].json)

C18_ListIsCallersRows ==
    [][/\ \A c \in Clients :
            (Arrives(c, {"list"}) /\ session[c] # 0)
                => LET own == OwnedBy(favorites, session[c]) IN
                   /\ pc'[c] = "done"
                   /\ resp'[c].status = 200
                   /\ Len(resp'[c].favs) = Len(own)
                   /\ \A i \in 1..Len(own) :
                         resp'[c].favs[i] = [id |-> own[i].hotspot_id,
                                            name |-> own[i].hotspot_name]
                   /\ favorites' = favorites
       /\ \A u \in UserIds :
            (ListFavorites(favorites', u) # ListFavorites(favorites, u))
                => \E c \in Clients :
                     /\ Steps(c)
                     /\ cur'[c].op \in {"add", "remove"}
                     /\ cur'[c].uid = u]_vars

\* C19: when a remove is answered 200, the user has no row left for that
\* hotspot id (the list no longer shows it and a further remove is 404); a
\* remove answered 404 leaves table favorite as it is.
C19_RemovedIsGone ==
    [][\A c \in Clients :
        (Answers(c) /\ cur'[c].op = "remove")
            => /\ (resp'[c].status = 200)
                    => \A i \in 1..Len(favorites') :
                         ~(/\ favorites'[i].user_id = cur'[c].uid
                           /\ favorites'[i].hotspot_id = cur'[c].a)
               /\ (resp'[c].status = 404) => (favorites' = favorites)]_vars

(***************************************************************************)
(* Claims about the observation proxy (checked under SpecProxy)            *)
(***************************************************************************)
\* Deployment r has answered the current request
Answered(r) == obsPc[r] = "done"
\* Deployment r called upstream for the current request and got an HTTP reply
GotReply(r) == Answered(r) /\ upstreamCalls[r] # <<>> /\ upstreamReply.kind = "http"
\* The current request leaves out a required field (or has no payload at all)
OmitsRequired == ~obsReq.has \/ \E f \in Required(obsOp) : obsReq.data[f] = None
ConfigError == ErrorResponse(500, "Server configuration error: API key missing")

\* C4: with the credential set, a request that omits a required field
\* (including a request with no payload at all) is answered 400 and no
\* upstream call is issued.
C4_OmittedFieldIs400 ==
    \A r \in Runs :
        (Answered(r) /\ Truthy(apiKey[r]) /\ OmitsRequired)
            => (obsResp[r].status = 400 /\ upstreamCalls[r] = <<>>)

\* C5: without the credential, every request to any of the five handlers is
\* answered with the 500 configuration error and no upstream call, whether
\* or not its required fields are present.
C5_ConfigErrorFirst ==
    \A r \in Runs :
        (Answered(r) /\ ~Truthy(apiKey[r]))
            => (obsResp[r] = ConfigError /\ upstreamCalls[r] = <<>>)

\* C6: every upstream call carries the credential in the X-eBirdApiToken
\* header and nowhere in the URL or the query parameters; the response does
\* not carry it; and two deployments that differ only in their (non-empty)
\* credential and see the same upstream reply answer identically.
C6_CredentialOnlyInHeader ==
    /\ \A r \in Runs : \A i \in 1..Len(upstreamCalls[r]) :
          LET c == upstreamCalls[r][i] IN
            /\ c.headers["X-eBirdApiToken"] = apiKey[r]
            /\ \A k \in 1..Len(c.url) : c.url[k] # apiKey[r].v
            /\ \A p \in DOMAIN c.params : c.params[p] # apiKey[r]
    /\ \A r \in Runs :
          (Answered(r) /\ Truthy(apiKey[r])) => obsResp[r].error # apiKey[r].v
    /\ (/\ \A r \in Runs : Answered(r) /\ Truthy(apiKey[r])
        /\ upstreamReply.kind # "exc")
            => obsResp[1] = obsResp[2]

C6_Witness ==
    /\ \A r \in Runs : GotReply(r)
    /\ apiKey[1] # apiKey[2]
    /\ upstreamReply.status = 404

\* C7: an upstream reply with a status other than 200 is answered with that
\* status and an {error, message} envelope whose message is the upstream
\* body text.
C7_UpstreamErrorForwarded ==
    \A r \in Runs :
        (GotReply(r) /\ upstreamReply.status # 200)
            => /\ obsResp[r].status = upstreamReply.status
               /\ obsResp[r].isError
               /\ obsResp[r].hasMessage
               /\ obsResp[r].message = upstreamReply.text

C7_Witness ==
    /\ GotReply(1)
    /\ upstreamReply.status = 429
    /\ upstreamReply.text = <<"[", "1", "]">>
    /\ obsOp = "hotspot_info"

\* C8 as stated: an upstream reply with status 200 is answered 200 with the
\* upstream body unchanged.
C8_BodyUnchanged ==
    \A r \in Runs :
        (GotReply(r) /\ upstreamReply.status = 200)
            => (obsResp[r].status = 200 /\ obsResp[r].body = upstreamReply.text)

\* C8 amended: an upstream reply with status 200 whose body parses as JSON is
\* answered 200 with a body that parses to the same JSON value (the value
\* re-serialised, not the upstream bytes); one whose body does not parse is
\* answered 500 with the parser's error.
C8_JsonValueForwarded ==
    \A r \in Runs :
        (GotReply(r) /\ upstreamReply.status = 200)
            => IF JsonLoads(upstreamReply.text).ok
               THEN /\ obsResp[r].status = 200
                    /\ ~obsResp[r].isError
                    /\ JsonLoads(obsResp[r].body).ok
                    /\ JsonLoads(obsResp[r].body).val = JsonLoads(upstreamReply.text).val
               ELSE obsResp[r] = ErrorResponse(500, JsonDecodeError)

C8_Witness ==
    /\ GotReply(1)
    /\ upstreamReply.status = 200
    /\ upstreamReply.text = <<"[", " ", "]">>
    /\ obsResp[1].status = 200
    /\ obsResp[1].body # upstreamReply.text

\* C9: a request issues at most one upstream GET; when that call fails at
\* transport level the request is answered 500 with the exception's
\* description and there is still exactly one call.
C9_OneCallNoRetry ==
    \A r \in Runs :
        /\ Len(upstreamCalls[r]) <= 1
        /\ (Answered(r) /\ upstreamCalls[r] # <<>> /\ upstreamReply.kind = "exc")
              => obsResp[r] = ErrorResponse(500, upstreamReply.exc)
        /\ (obsPc[r] = "wait") => Len(upstreamCalls[r]) = 1

C9_Witness ==
    /\ Answered(1)
    /\ upstreamCalls[1] # <<>>
    /\ upstreamReply.kind = "exc"
    /\ upstreamReply.exc = "Read timed out"

\* A field value that is there and is not the empty string
Present(x) == x # None /\ x # Str("")

\* C15: with the credential set, a request whose required fields are all
\* present and non-empty (a lat or lng of numeric zero included) is not
\* answered 400 and issues exactly one upstream GET, in which a daysBack left
\* out is 30 for observations and 14 for nearby and notable, and a dist left
\* out is 25.
C15_PresentFieldsAreForwarded ==
    \A r \in Runs :
        (/\ Answered(r)
         /\ Truthy(apiKey[r])
         /\ obsReq.has
         /\ \A f \in Required(obsOp) : Present(obsReq.data[f]))
            => /\ obsResp[r].status # 400
               /\ Len(upstreamCalls[r]) = 1
               /\ LET q == upstreamCalls[r][1].params IN
                  /\ ("daysBack" \in Fields(obsOp) /\ obsReq.data["daysBack"] = None)
                        => q["back"] = (IF obsOp = "observations"
                                        THEN Num("30") ELSE Num("14"))
                  /\ ("dist" \in Fields(obsOp) /\ obsReq.data["dist"] = None)
                        => q["dist"] = Num("25")

====
